---- MODULE Spec2Model ----
(***************************************************************************)
(* Model of the eros error library (errors.go, result.go).                 *)
(*                                                                         *)
(* *Error values live on a heap of nodes; an `error` interface value is    *)
(* nil, a pointer to a heap node, or an error of another package:          *)
(*   foreign      a comparable pointer-like error without Unwrap, Is or As *)
(*                method, such as the result of the standard errors.New    *)
(*   withStack,   the two wrappers github.com/pkg/errors builds in Wrap    *)
(*   withMessage  and Wrapf (the tests use them); each has an Unwrap       *)
(*                method that returns the error it holds                   *)
(*   matcher      a comparable non-pointer error value that has an         *)
(*                Is(error) bool and an As(interface{}) bool method        *)
(* Messages are numbers; CastMsg stands for the fixed message              *)
(* "cast to eros.Error".                                                   *)
(*                                                                         *)
(* Spec      a client calling New, Wrap, WithCause, Unwrap, Is, As, Error  *)
(* SpecFlow  nested scopes with defer ErrorHandler(h)() whose bodies call  *)
(*           Check, Handle, CheckVal, CheckNotNil or panic                 *)
(* SpecAccum a client accumulating errors with e = e.WithCause(x)          *)
(***************************************************************************)
EXTENDS Integers, Sequences, FiniteSets, TLC

\* ---------------------------------------------------------------- bounds
MaxNodes == 4
MaxOps == 3
NumForeign == 2
NumMsgs == 1
MaxDepth == 3
MaxBodySteps == 4
NumOther == 2
NumValues == 2
MaxAccum == 3
NumAccumForeign == 5

VARIABLES
    heap,       \* the *Error nodes allocated so far, by address 1..Len(heap)
    hung,       \* an operation was entered that never returns
    last,       \* the latest operation: its name, arguments and results
    nops,       \* number of library calls made by the client
    stack,      \* protected scopes (defer ErrorHandler(h)()), innermost last
    pc,         \* "run", "panicking" or "crashed"
    panicVal,   \* the value being panicked with
    hcalls,     \* calls of Recovery Point handlers, in order
    localCalls, \* calls of handlers given to Result.Handle, in order
    steps,      \* number of statements executed by the scopes' bodies
    acc,        \* the accumulating error of the accumulation client
    used        \* the errors it attached, in order

vars == <<heap, hung, last, nops, stack, pc, panicVal, hcalls, localCalls,
          steps, acc, used>>
libVars == <<hung, nops>>
flowVars == <<stack, pc, panicVal, hcalls, localCalls, steps>>
accVars == <<acc, used>>

\* ------------------------------------------------------- error values
NilErr == [k |-> "nil", v |-> 0]
PtrErr(a) == [k |-> "ptr", v |-> a]
ForeignErr(i) == [k |-> "foreign", v |-> i]
OtherVal(i) == [k |-> "other", v |-> i]

\* github.com/pkg/errors: &withStack{error: inner} and
\* &withMessage{cause: inner}; Wrap and Wrapf return a withStack around a
\* withMessage around their argument.  A client wraps a given error once, so
\* a wrapper is identified by what it holds.
WithStack(inner) == [k |-> "withStack", v |-> inner]
WithMessage(inner) == [k |-> "withMessage", v |-> inner]
PkgWrap(err) == IF err = NilErr THEN err
                ELSE WithStack(WithMessage(err))

\* an error with an Is and an As method: its Is method reports a match with
\* the foreign error i, its As method hands out the foreign error i to a
\* slot of that error's type
MatcherErr(i) == [k |-> "matcher", v |-> i]
HasIsMethod(err) == err.k = "matcher"
IsMethod(err, target) == target = ForeignErr(err.v)
HasAsMethod(de) == de.k = "matcher"
AsMethod(de, targetType) ==
    IF targetType = "PtrForeign"
    THEN [ok |-> TRUE, slot |-> ForeignErr(de.v)]
    ELSE [ok |-> FALSE, slot |-> [k |-> "zero", v |-> 0]]

Msgs == 1..NumMsgs
CastMsg == 0

\* type Error struct { msg; cause; next; count }
ErrorStruct(msg, cause, next, count) ==
    [msg |-> msg, cause |-> cause, next |-> next, count |-> count]

Alloc(h, node) == [h |-> Append(h, node), ret |-> Len(h) + 1]

New(h, msg) == Alloc(h, ErrorStruct(msg, NilErr, 0, 0))

Wrap(h, err, msg) == Alloc(h, ErrorStruct(msg, err, 0, 1))

Count(h, a) == h[a].count

\* (e *Error).Unwrap
ErrorUnwrap(h, a) ==
    IF a # 0
    THEN IF h[a].next # 0 THEN PtrErr(h[a].next) ELSE h[a].cause
    ELSE NilErr

\* does err have an Unwrap() error method
HasUnwrap(err) == err.k \in {"ptr", "withStack", "withMessage"}

\* package-level Unwrap: the result of err's Unwrap method, nil without one
Unwrap(h, err) ==
    IF ~HasUnwrap(err) THEN NilErr
    ELSE IF err.k = "ptr" THEN ErrorUnwrap(h, err.v)
    ELSE err.v

\* dereference: a non-nil pointer is replaced by the struct it points to
\* when that struct implements error itself: Error (value receiver Error())
\* and withStack (it embeds an error); the other types are left alone.
dereference(err) ==
    IF err.k = "ptr" THEN [k |-> "struct", v |-> err.v]
    ELSE IF err.k = "withStack" THEN [k |-> "withStackStruct", v |-> err.v]
    ELSE err

CastOrWrap(h, err) ==
    IF dereference(err).k = "struct"
    THEN Alloc(h, h[err.v])
    ELSE Wrap(h, err, CastMsg)

\* reflect.TypeOf(target).Comparable(): pointers and the matcher's type
\* are comparable
Comparable(target) ==
    target.k \in {"ptr", "foreign", "withStack", "withMessage", "matcher"}

\* The loop of Is; seen is the set of values already visited, a revisit
\* without a match means the loop never ends.
RECURSIVE IsLoop(_, _, _, _)
IsLoop(h, err, target, seen) ==
    IF Comparable(target) /\ err = target THEN "true"
    ELSE IF HasIsMethod(err) /\ IsMethod(err, target) THEN "true"
    ELSE LET u == Unwrap(h, err)
         IN IF u = NilErr THEN "false"
            ELSE IF u \in seen THEN "hang"
            ELSE IsLoop(h, u, target, seen \cup {u})

Is(h, err, target) ==
    IF target = NilErr
    THEN IF err = target THEN "true" ELSE "false"
    ELSE IsLoop(h, err, target, {err})

\* (e *Error).WithCause; e = 0 is the nil receiver.  Result: the new heap,
\* the returned pointer, and whether the call failed to return.
RECURSIVE WithCause(_, _, _)
WithCause(h, e, err) ==
    IF e = 0
    THEN LET c == CastOrWrap(h, err)
         IN [h |-> c.h, ret |-> c.ret, hang |-> FALSE]
    ELSE IF err = NilErr THEN [h |-> h, ret |-> e, hang |-> FALSE]
    ELSE LET found == Is(h, PtrErr(e), err)
         IN IF found = "hang" THEN [h |-> h, ret |-> e, hang |-> TRUE]
            ELSE IF found = "true" THEN [h |-> h, ret |-> e, hang |-> FALSE]
            ELSE LET c == CastOrWrap(h, err)
                     v == c.ret
                 IN IF c.h[e].next # 0
                    THEN LET r == WithCause(c.h, v, PtrErr(c.h[e].next))
                             h2 == [r.h EXCEPT ![e].next = r.ret]
                         IN [h |-> [h2 EXCEPT ![e].count = h2[v].count + 1],
                             ret |-> e, hang |-> r.hang]
                    ELSE LET h2 == [c.h EXCEPT ![e].next = v]
                         IN [h |-> [h2 EXCEPT ![e].count = h2[v].count + 1],
                             ret |-> e, hang |-> FALSE]

\* (e Error).Error(): the rendering as a sequence of tokens.  It recurses
\* into next and into cause; path holds the nodes of the current recursion,
\* meeting one of them again means the recursion never returns.
HangTok == [t |-> "hang", a |-> 0, b |-> 0]
RECURSIVE ErrorString(_, _, _)
ErrorString(h, err, path) ==
    IF err.k \in {"foreign", "matcher"}
    THEN <<[t |-> err.k, a |-> err.v, b |-> 0]>>
    ELSE IF err.k = "withStack" THEN ErrorString(h, err.v, path)
    ELSE IF err.k = "withMessage"
    THEN <<[t |-> "withMessage", a |-> 0, b |-> 0]>>
         \o ErrorString(h, err.v, path)
    ELSE IF err.v \in path THEN <<HangTok>>
    ELSE LET n == h[err.v]
             p == path \cup {err.v}
             nx == IF n.next # 0 THEN ErrorString(h, PtrErr(n.next), p)
                   ELSE <<>>
             cs == IF n.cause # NilErr
                   THEN <<[t |-> "root", a |-> 0, b |-> 0]>>
                        \o ErrorString(h, n.cause, p)
                   ELSE <<>>
         IN <<[t |-> "msg", a |-> n.msg, b |-> n.count]>> \o nx \o cs

ErrorHangs(h, a) ==
    LET s == ErrorString(h, PtrErr(a), {})
    IN \E i \in 1..Len(s) : s[i] = HangTok

\* ------------------------------------------------------------------- As
Targets == {"nil", "nonptr", "nilptr", "int",
            "Error", "PtrError", "error", "PtrForeign"}

\* what As does with the target before it walks the chain
TargetPanics(target) == target \in {"nil", "nonptr", "nilptr", "int"}

\* dynamic type of a value, and of dereference(node) for a chain node
TypeOf(x) ==
    CASE x.k = "ptr" -> "PtrError"
      [] x.k = "struct" -> "Error"
      [] x.k = "foreign" -> "PtrForeign"
      [] x.k = "withStack" -> "PtrWithStack"
      [] x.k = "withStackStruct" -> "WithStack"
      [] x.k = "withMessage" -> "PtrWithMessage"
      [] x.k = "matcher" -> "Matcher"
TypeOfDeref(err) == TypeOf(dereference(err))

\* reflect.Type.AssignableTo: identical types, or an interface the type
\* implements (every error value implements error)
AssignableTo(t, targetType) == t = targetType \/ targetType = "error"

ZeroSlot == [k |-> "zero", v |-> 0]

\* The loop of As.  The value stored is dereference(err), a copy of the
\* struct for *Error; the As method is looked up on dereference(err).
RECURSIVE AsLoop(_, _, _, _)
AsLoop(h, err, targetType, seen) ==
    IF err = NilErr THEN [res |-> "false", slot |-> ZeroSlot]
    ELSE IF AssignableTo(TypeOfDeref(err), targetType)
    THEN [res |-> "true", slot |-> dereference(err)]
    ELSE IF HasAsMethod(dereference(err))
            /\ AsMethod(dereference(err), targetType).ok
    THEN [res |-> "true", slot |-> AsMethod(dereference(err), targetType).slot]
    ELSE LET u == Unwrap(h, err)
         IN IF u \in seen THEN [res |-> "hang", slot |-> ZeroSlot]
            ELSE AsLoop(h, u, targetType, seen \cup {u})

As(h, err, target) ==
    IF TargetPanics(target) THEN [res |-> "panic", slot |-> ZeroSlot]
    ELSE AsLoop(h, err, target, {err})

\* ------------------------------------------------ the library's clients
Ptrs(h) == 1..Len(h)
\* the errors a scope's body has at hand: nil, the Errors made so far, and
\* errors of other packages
BodyErrs(h) == {NilErr} \cup {PtrErr(a) : a \in Ptrs(h)}
               \cup {ForeignErr(i) : i \in 1..NumForeign}
               \cup {PkgWrap(ForeignErr(1)), MatcherErr(1)}
\* the errors the library's client has at hand: these, and the Errors made
\* so far wrapped by PkgWrap
ErrVals(h) == BodyErrs(h) \cup {PkgWrap(PtrErr(a)) : a \in Ptrs(h)}

Init == /\ heap = <<>>
        /\ hung = FALSE
        /\ last = [op |-> "none"]
        /\ nops = 0
        /\ stack = <<>>
        /\ pc = "run"
        /\ panicVal = NilErr
        /\ hcalls = <<>>
        /\ localCalls = <<>>
        /\ steps = 0
        /\ acc = 0
        /\ used = <<>>

\* A client that calls the error functions in any order on the errors it
\* holds.  Every call counts against MaxOps; a call needing more than
\* MaxNodes nodes is not made.
CanCall == ~hung /\ nops < MaxOps

DoNew(msg) ==
    /\ CanCall
    /\ Len(heap) < MaxNodes
    /\ LET r == New(heap, msg)
       IN /\ heap' = r.h
          /\ last' = [op |-> "New", ret |-> PtrErr(r.ret)]
    /\ nops' = nops + 1
    /\ UNCHANGED <<hung, flowVars, accVars>>

DoWrap(err, msg) ==
    /\ CanCall
    /\ Len(heap) < MaxNodes
    /\ LET r == Wrap(heap, err, msg)
       IN /\ heap' = r.h
          /\ last' = [op |-> "Wrap", err |-> err, ret |-> PtrErr(r.ret)]
    /\ nops' = nops + 1
    /\ UNCHANGED <<hung, flowVars, accVars>>

DoWithCause(e, err) ==
    /\ CanCall
    /\ LET r == WithCause(heap, e, err)
       IN /\ Len(r.h) <= MaxNodes
          /\ hung' = r.hang
          /\ heap' = IF r.hang THEN heap ELSE r.h
          /\ last' = [op |-> "WithCause", e |-> e, err |-> err,
                      ret |-> r.ret, hang |-> r.hang,
                      count |-> IF e = 0 THEN 0 ELSE Count(heap, e),
                      attached |-> ~r.hang /\ e # 0 /\ r.h # heap]
    /\ nops' = nops + 1
    /\ UNCHANGED <<flowVars, accVars>>

DoUnwrap(err) ==
    /\ CanCall
    /\ last' = [op |-> "Unwrap", err |-> err, ret |-> Unwrap(heap, err)]
    /\ nops' = nops + 1
    /\ UNCHANGED <<heap, hung, flowVars, accVars>>

DoIs(err, target) ==
    /\ CanCall
    /\ LET r == Is(heap, err, target)
       IN /\ hung' = (r = "hang")
          /\ last' = [op |-> "Is", err |-> err, target |-> target, res |-> r]
    /\ nops' = nops + 1
    /\ UNCHANGED <<heap, flowVars, accVars>>

DoAs(err, target) ==
    /\ CanCall
    /\ LET r == As(heap, err, target)
       IN /\ hung' = (r.res = "hang")
          /\ last' = [op |-> "As", err |-> err, target |-> target,
                      res |-> r.res, slot |-> r.slot]
    /\ nops' = nops + 1
    /\ UNCHANGED <<heap, flowVars, accVars>>

DoError(a) ==
    /\ CanCall
    /\ hung' = ErrorHangs(heap, a)
    /\ last' = [op |-> "Error", e |-> a,
                out |-> ErrorString(heap, PtrErr(a), {})]
    /\ nops' = nops + 1
    /\ UNCHANGED <<heap, flowVars, accVars>>

Next ==
    \/ \E msg \in Msgs : DoNew(msg)
    \/ \E err \in ErrVals(heap), msg \in Msgs : DoWrap(err, msg)
    \/ \E e \in Ptrs(heap) \cup {0}, err \in ErrVals(heap) : DoWithCause(e, err)
    \/ \E err \in ErrVals(heap) : DoUnwrap(err)
    \/ \E err, target \in ErrVals(heap) : DoIs(err, target)
    \/ \E err \in ErrVals(heap), target \in Targets : DoAs(err, target)
    \/ \E a \in Ptrs(heap) : DoError(a)

Spec == Init /\ [][Next]_vars

\* ------------------------------------------- Result and ErrorHandler
\* type Result[T] struct { Value T; Error error }
Values == 1..NumValues
Cast(val, err) == [Value |-> val, Error |-> err]

\* (r Result[T]).Check: panics with the coerced error, else returns Value
ResultCheck(h, r) ==
    IF r.Error # NilErr
    THEN LET c == CastOrWrap(h, r.Error)
         IN [h |-> c.h, panics |-> TRUE, val |-> PtrErr(c.ret)]
    ELSE [h |-> h, panics |-> FALSE, val |-> r.Value]

\* Handle with its test inverted: the handler runs when there is no error
ResultHandleInverted(h, r) ==
    IF r.Error = NilErr
    THEN LET c == CastOrWrap(h, r.Error)
         IN [h |-> c.h, called |-> TRUE, arg |-> PtrErr(c.ret),
             val |-> r.Value]
    ELSE [h |-> h, called |-> FALSE, arg |-> NilErr, val |-> r.Value]

\* (r Result[T]).Handle: calls handler on the coerced error, returns Value
ResultHandle(h, r) ==
    IF r.Error # NilErr
    THEN LET c == CastOrWrap(h, r.Error)
         IN [h |-> c.h, called |-> TRUE, arg |-> PtrErr(c.ret),
             val |-> r.Value]
    ELSE [h |-> h, called |-> FALSE, arg |-> NilErr, val |-> r.Value]

\* Check(err): panics with the coerced error when err is not nil
Check(h, err) ==
    IF err # NilErr
    THEN LET c == CastOrWrap(h, err)
         IN [h |-> c.h, panics |-> TRUE, val |-> PtrErr(c.ret)]
    ELSE [h |-> h, panics |-> FALSE, val |-> NilErr]

\* CheckNotNil(val, msg) for a pointer val; 0 is the nil pointer
CheckNotNil(h, val, msg) ==
    IF val = 0
    THEN LET n == New(h, msg)
         IN [h |-> n.h, panics |-> TRUE, val |-> PtrErr(n.ret)]
    ELSE [h |-> h, panics |-> FALSE, val |-> val]

CheckVal(h, val, err) == ResultCheck(h, Cast(val, err))

\* r.(error): *Error and the errors of other packages implement error
IsErrorLike(r) ==
    r.k \in {"ptr", "foreign", "withStack", "withMessage", "matcher"}

\* ErrorHandler without the return after the handler call: it falls through
\* to panic(r)
ErrorHandlerNoReturn(h, r) ==
    IF r # NilErr
    THEN IF IsErrorLike(r)
         THEN LET c == CastOrWrap(h, r)
              IN [h |-> c.h, called |-> TRUE, arg |-> PtrErr(c.ret),
                  repanic |-> TRUE]
         ELSE [h |-> h, called |-> FALSE, arg |-> NilErr, repanic |-> TRUE]
    ELSE [h |-> h, called |-> FALSE, arg |-> NilErr, repanic |-> FALSE]

\* The closure returned by ErrorHandler(handler), run as a deferred call;
\* r is what recover() returns, NilErr when the scope is not panicking.
ErrorHandler(h, r) ==
    IF r # NilErr
    THEN IF IsErrorLike(r)
         THEN LET c == CastOrWrap(h, r)
              IN [h |-> c.h, called |-> TRUE, arg |-> PtrErr(c.ret),
                  repanic |-> FALSE]
         ELSE [h |-> h, called |-> FALSE, arg |-> NilErr, repanic |-> TRUE]
    ELSE [h |-> h, called |-> FALSE, arg |-> NilErr, repanic |-> FALSE]

\* A call stack of functions that each start with defer ErrorHandler(h)().
\* The handlers given by the caller record their argument and return.
Running == pc = "run" /\ steps < MaxBodySteps
Top == stack[Len(stack)]
Pop == SubSeq(stack, 1, Len(stack) - 1)
PanicVals(h) == BodyErrs(h) \cup {OtherVal(i) : i \in 1..NumOther}

\* The value a panic(arg) carries, which is what recover() returns.  For
\* panic(nil) it depends on the build: nil where the panicnil=1 setting is
\* in force (Go 1.18 to 1.20, and later toolchains when the main module
\* declares such a version), a *runtime.PanicNilError, which implements
\* error, elsewhere.
PanicNilError == [k |-> "foreign", v |-> 0]
Recovered(arg) == IF arg = NilErr THEN {NilErr, PanicNilError} ELSE {arg}

\* the abort raised by the statement numbered steps + 1
Raise(op, val) ==
    /\ pc' = "panicking"
    /\ panicVal' = val
    /\ last' = [op |-> op, abort |-> steps + 1, val |-> val, stack |-> stack]

EnterScope ==
    /\ Running
    /\ Len(stack) < MaxDepth
    /\ stack' = Append(stack, steps + 1)
    /\ steps' = steps + 1
    /\ last' = [op |-> "EnterScope"]
    /\ UNCHANGED <<heap, libVars, pc, panicVal, hcalls, localCalls, accVars>>

DoResultCheck(val, err) ==
    /\ Running
    /\ steps' = steps + 1
    /\ LET r == ResultCheck(heap, Cast(val, err))
       IN /\ heap' = r.h
          /\ IF r.panics THEN Raise("Result.Check", r.val)
             ELSE /\ last' = [op |-> "Result.Check", ret |-> r.val]
                  /\ UNCHANGED <<pc, panicVal>>
    /\ UNCHANGED <<libVars, stack, hcalls, localCalls, accVars>>

DoCheckVal(val, err) ==
    /\ Running
    /\ steps' = steps + 1
    /\ LET r == CheckVal(heap, val, err)
       IN /\ heap' = r.h
          /\ IF r.panics THEN Raise("CheckVal", r.val)
             ELSE /\ last' = [op |-> "CheckVal", ret |-> r.val]
                  /\ UNCHANGED <<pc, panicVal>>
    /\ UNCHANGED <<libVars, stack, hcalls, localCalls, accVars>>

DoCheck(err) ==
    /\ Running
    /\ steps' = steps + 1
    /\ LET r == Check(heap, err)
       IN /\ heap' = r.h
          /\ IF r.panics THEN Raise("Check", r.val)
             ELSE /\ last' = [op |-> "Check"]
                  /\ UNCHANGED <<pc, panicVal>>
    /\ UNCHANGED <<libVars, stack, hcalls, localCalls, accVars>>

DoCheckNotNil(val, msg) ==
    /\ Running
    /\ steps' = steps + 1
    /\ LET r == CheckNotNil(heap, val, msg)
       IN /\ heap' = r.h
          /\ IF r.panics THEN Raise("CheckNotNil", r.val)
             ELSE /\ last' = [op |-> "CheckNotNil", ret |-> r.val]
                  /\ UNCHANGED <<pc, panicVal>>
    /\ UNCHANGED <<libVars, stack, hcalls, localCalls, accVars>>

DoResultHandle(val, err) ==
    /\ Running
    /\ steps' = steps + 1
    /\ LET r == ResultHandle(heap, Cast(val, err))
       IN /\ heap' = r.h
          /\ localCalls' = IF r.called THEN Append(localCalls, r.arg)
                           ELSE localCalls
          /\ last' = [op |-> "Result.Handle", val |-> val, err |-> err,
                      ret |-> r.val, lbefore |-> Len(localCalls)]
    /\ UNCHANGED <<libVars, stack, pc, panicVal, hcalls, accVars>>

\* a statement of a body that panics by itself
DoPanic(arg) ==
    /\ Running
    /\ steps' = steps + 1
    /\ \E val \in Recovered(arg) : Raise("panic", val)
    /\ UNCHANGED <<heap, libVars, stack, hcalls, localCalls, accVars>>

\* the innermost scope ends, by return or by panic: its deferred call runs
ScopeExit ==
    /\ stack # <<>>
    /\ pc \in {"run", "panicking"}
    /\ LET d == ErrorHandler(heap, IF pc = "panicking" THEN panicVal
                                   ELSE NilErr)
       IN /\ heap' = d.h
          /\ hcalls' = IF d.called
                       THEN Append(hcalls, [scope |-> Top, arg |-> d.arg,
                                            abort |-> last.abort])
                       ELSE hcalls
          /\ pc' = IF d.repanic THEN "panicking" ELSE "run"
          /\ panicVal' = IF d.repanic THEN panicVal ELSE NilErr
    /\ stack' = Pop
    /\ last' = IF pc = "panicking" THEN last ELSE [op |-> "return"]
    /\ UNCHANGED <<libVars, localCalls, steps, accVars>>

\* a panic that leaves the outermost function ends the program
Crash ==
    /\ pc = "panicking"
    /\ stack = <<>>
    /\ pc' = "crashed"
    /\ UNCHANGED <<heap, libVars, last, stack, panicVal, hcalls, localCalls,
                   steps, accVars>>

NextFlow ==
    \/ EnterScope
    \/ \E val \in Values, err \in BodyErrs(heap) : DoResultCheck(val, err)
    \/ \E val \in Values, err \in BodyErrs(heap) : DoCheckVal(val, err)
    \/ \E err \in BodyErrs(heap) : DoCheck(err)
    \/ \E val \in 0..1, msg \in Msgs : DoCheckNotNil(val, msg)
    \/ \E val \in Values, err \in BodyErrs(heap) : DoResultHandle(val, err)
    \/ \E arg \in PanicVals(heap) : DoPanic(arg)
    \/ ScopeExit
    \/ Crash

SpecFlow == Init /\ [][NextFlow]_vars

\* ------------------------------------------------------ accumulation
\* A client that starts with  var e *Error  and repeats
\* e = e.WithCause(x), each time with an error x it has not attached yet.
\* It keeps the result of every call, as ReadFileBuffer does with res.Error;
\* a call whose result is dropped on a nil e, as in ExampleCheckAndSet,
\* leaves e nil and accumulates nothing.
CanAccum == Len(used) < MaxAccum

\* e = e.WithCause(New(msg))
AccumLeaf(msg) ==
    /\ CanAccum
    /\ LET n == New(heap, msg)
           r == WithCause(n.h, acc, PtrErr(n.ret))
       IN /\ heap' = r.h
          /\ acc' = r.ret
          /\ used' = Append(used, PtrErr(n.ret))
    /\ last' = [op |-> "AccumLeaf"]
    /\ UNCHANGED <<libVars, flowVars>>

\* e = e.WithCause(f) for a foreign error f
AccumForeign(f) ==
    /\ CanAccum
    /\ \A i \in DOMAIN used : used[i] # f
    /\ LET r == WithCause(heap, acc, f)
       IN /\ heap' = r.h
          /\ acc' = r.ret
          /\ used' = Append(used, f)
    /\ last' = [op |-> "AccumForeign"]
    /\ UNCHANGED <<libVars, flowVars>>

NextAccum ==
    \/ \E msg \in Msgs : AccumLeaf(msg)
    \/ \E i \in 1..NumAccumForeign : AccumForeign(ForeignErr(i))

SpecAccum == Init /\ [][NextAccum]_vars

\* ------------------------------------------------- chains, for the claims
\* does following Unwrap from err reach the end
RECURSIVE ChainEnds(_, _, _)
ChainEnds(h, err, seen) ==
    LET u == Unwrap(h, err)
    IN IF u = NilErr THEN TRUE
       ELSE IF u \in seen THEN FALSE
       ELSE ChainEnds(h, u, seen \cup {u})

\* the values met by following Unwrap from err, err included
RECURSIVE ChainNodes(_, _, _)
ChainNodes(h, err, seen) ==
    LET u == Unwrap(h, err)
    IN IF u = NilErr \/ u \in seen THEN seen
       ELSE ChainNodes(h, u, seen \cup {u})

Chain(h, err) == IF err = NilErr THEN {} ELSE ChainNodes(h, err, {err})

\* C1: the chain of every Error is acyclic: following Unwrap (next, else
\* cause) from any Error reaches the end after finitely many steps.
C1_ChainsAcyclic ==
    \A a \in Ptrs(heap) : ChainEnds(heap, PtrErr(a), {PtrErr(a)})

\* the latest call was e.WithCause(c) with e and c non-nil, and it returned
AppliedWithCause ==
    /\ last.op = "WithCause"
    /\ last.e # 0
    /\ last.err # NilErr
    /\ ~last.hang

\* the latest statement raised an abort that is or was in flight
Aborted == last.op \in {"Result.Check", "CheckVal", "Check", "CheckNotNil",
                        "panic"}
           /\ "abort" \in DOMAIN last
\* the handler calls made for the latest abort
HandledLast == {i \in DOMAIN hcalls : hcalls[i].abort = last.abort}

\* C2: in a scope protected by a Recovery Point whose body calls Check() on
\* a Result with a non-nil error, the handler is invoked exactly once, with
\* a non-nil *Error, and the abort goes no further: the caller of the scope
\* resumes and no enclosing Recovery Point's handler runs for this abort.
C2_CheckAbortHandledOnce ==
    /\ \A i, j \in DOMAIN hcalls :
           hcalls[i].abort = hcalls[j].abort => i = j
    /\ (Aborted /\ last.op \in {"Result.Check", "CheckVal"}
        /\ last.stack # <<>>) =>
          /\ pc \in {"panicking", "run"}
          /\ pc = "panicking" => (HandledLast = {} /\ stack = last.stack)
          /\ pc = "run" =>
               /\ stack = SubSeq(last.stack, 1, Len(last.stack) - 1)
               /\ \E i \in HandledLast :
                    /\ HandledLast = {i}
                    /\ hcalls[i].scope = last.stack[Len(last.stack)]
                    /\ hcalls[i].arg.k = "ptr"
                    /\ hcalls[i].arg.v \in Ptrs(heap)

C2_Witness ==
    /\ Aborted /\ last.op = "Result.Check"
    /\ Len(last.stack) = 2
    /\ pc = "run"
    /\ Len(stack) = 1
    /\ Cardinality(HandledLast) = 1

\* C3: when a scope unwinds with a panic whose value is not error-like,
\* the Recovery Point does not call the handler and re-raises a panic with
\* the same value, which goes on to the next enclosing Recovery Point or
\* ends the program: it is never swallowed.
C3_NonErrorPanicReraised ==
    (Aborted /\ last.op = "panic" /\ ~IsErrorLike(last.val)) =>
        /\ HandledLast = {}
        /\ pc \in {"panicking", "crashed"}
        /\ panicVal = last.val
        /\ Len(stack) <= Len(last.stack)
        /\ stack = SubSeq(last.stack, 1, Len(stack))
        /\ pc = "crashed" => stack = <<>>

\* what CastOrWrap makes of err: a copy of the Error it points to, or a
\* wrapper around it
IsCoerced(h, a, err) ==
    IF err.k = "ptr" THEN h[a] = h[err.v]
    ELSE h[a] = ErrorStruct(CastMsg, err, 0, 1)

\* C8: for a Result with value v and non-nil error e, Handle(h) calls h
\* exactly once with the coerced e, returns v and control continues after
\* the call; with a nil error h is not called and v is returned.
C8_HandleFailsThrough ==
    last.op = "Result.Handle" =>
        /\ pc = "run"
        /\ last.ret = last.val
        /\ IF last.err # NilErr
           THEN /\ Len(localCalls) = last.lbefore + 1
                /\ localCalls[Len(localCalls)].k = "ptr"
                /\ IsCoerced(heap, localCalls[Len(localCalls)].v, last.err)
           ELSE Len(localCalls) = last.lbefore

C8_Witness ==
    /\ last.op = "Result.Handle"
    /\ last.err.k = "foreign"
    /\ Len(localCalls) = last.lbefore + 1
    /\ stack # <<>>

\* C4: WithCause is idempotent: once e.WithCause(c) has been applied, c
\* counts as in e's chain and e.WithCause(c) applied again is a no-op: the
\* heap, so e's chain, is unchanged and e.Count() does not increase.
C4_WithCauseIdempotent ==
    AppliedWithCause =>
        LET again == WithCause(heap, last.e, last.err)
        IN /\ ~again.hang
           /\ again.h = heap
           /\ Count(again.h, last.e) = Count(heap, last.e)

\* C5: three sequential WithCause calls with three distinct non-nil errors,
\* starting from a nil *Error, give a head whose Count() is 3, both when the
\* errors are leaf Errors made by New and when they are foreign errors.
C5_ThreeWithCauseCountThree ==
    (/\ Len(used) = 3
     /\ \/ \A i \in DOMAIN used : used[i].k = "ptr"
        \/ \A i \in DOMAIN used : used[i].k = "foreign")
    => Count(heap, acc) = 3

\* C6: Is(e1, e2) is true for two distinct Errors with equal underlying
\* representation, such as two results of New with the same message.
C6_IsEqualRepresentation ==
    (/\ last.op = "Is"
     /\ last.err.k = "ptr" /\ last.target.k = "ptr"
     /\ last.err.v # last.target.v
     /\ heap[last.err.v] = heap[last.target.v])
    => last.res = "true"

\* a node fits a slot when it, or the struct it points to, is assignable to
\* the slot's declared type
NodeFits(node, target) ==
    \/ AssignableTo(TypeOf(node), target)
    \/ AssignableTo(TypeOfDeref(node), target)

\* C7: As(err, &slot) returns true and stores a node into slot if and only
\* if some node on err's chain is assignable to slot's declared type (slots
\* of type *Error, Error and error included); otherwise it returns false
\* and leaves slot unmodified.
C7_AsIffAssignable ==
    (last.op = "As" /\ last.res \in {"true", "false"}) =>
        LET fits == {n \in Chain(heap, last.err) : NodeFits(n, last.target)}
        IN /\ (last.res = "true") <=> (fits # {})
           /\ last.res = "true" =>
                \E n \in fits : last.slot \in {n, dereference(n)}
           /\ last.res = "false" => last.slot = ZeroSlot

\* C9: accumulation never loses an error: right after e.WithCause(x), x is
\* found by Is(e, x), and every error found by Is(e, .) before the call (an
\* earlier attached error, the cause wrapped by Wrap) is still found.
C9_AccumulationKeepsErrors ==
    [][\A e \in Ptrs(heap), x \in ErrVals(heap) :
         (/\ last'.op = "WithCause" /\ last'.e = e /\ last'.err = x
          /\ nops' = nops + 1
          /\ x # NilErr /\ ~last'.hang)
         => /\ Is(heap', PtrErr(e), x) = "true"
            /\ \A y \in ErrVals(heap) :
                 Is(heap, PtrErr(e), y) = "true"
                 => Is(heap', PtrErr(e), y) = "true"]_vars

\* C10: an Error made by New has Count() 0, a WithCause call that attaches
\* a new link raises the receiver's Count() by exactly 1, and a no-op
\* WithCause leaves it unchanged.
C10_CountCountsAugmentations ==
    /\ last.op = "New" => Count(heap, last.ret.v) = 0
    /\ (last.op = "WithCause" /\ last.e # 0 /\ ~last.hang) =>
          Count(heap, last.e) =
              IF last.attached THEN last.count + 1 ELSE last.count


\* the addresses met by following the next field from a's next link
RECURSIVE NextLinks(_, _, _)
NextLinks(h, a, seen) ==
    IF a = 0 \/ a \in seen THEN <<>>
    ELSE <<a>> \o NextLinks(h, h[a].next, seen \cup {a})

NextChain(h, e) == NextLinks(h, h[e].next, {})

\* C11: when the receiver already has a non-empty next chain, WithCause(err)
\* merges the coerced err onto the tail of that chain: the links attached
\* earlier keep their positions and order, the receiver's Unwrap() still
\* returns the first-attached link, and the new error is the last link.
C11_WithCauseMergesAtTail ==
    [][\A e \in Ptrs(heap) :
         (/\ last'.op = "WithCause" /\ last'.e = e
          /\ nops' = nops + 1
          /\ heap[e].next # 0
          /\ last'.attached)
         => LET old == NextChain(heap, e)
                new == NextChain(heap', e)
            IN /\ Len(new) = Len(old) + 1
               /\ SubSeq(new, 1, Len(old)) = old
               /\ ErrorUnwrap(heap', e) = PtrErr(old[1])
               /\ IsCoerced(heap', new[Len(new)], last'.err)]_vars

====
